---- MODULE Spec2Model ----
(***************************************************************************)
(* State-machine model of psmoveservice/ServerNetworkManager.cpp:          *)
(* ClientConnection (per-client TCP socket, the two outbound queues and    *)
(* their pending-write flags) and ServerNetworkManagerImpl (connection     *)
(* map, accept loop, UDP connection-id rendezvous, bounded poll loop).     *)
(*                                                                         *)
(* The program is single threaded.  Completion handlers run only inside    *)
(* io_service.poll(), which poll() calls once per loop iteration; the      *)
(* public calls (send_*, shutdown, update) run between two update() calls. *)
(* An asynchronous operation is a record in a set or queue of outstanding  *)
(* operations from its start until its handler has run.                    *)
(***************************************************************************)
EXTENDS Integers, Sequences, FiniteSets, TLC

\* ---------------------------------------------------------------- bounds
\* Connections the process creates (ids 0 .. MaxConn-1).
MaxConn == 2
\* Calls of the send_* functions that enqueue something.
MaxSend == 2
\* Requests the clients send.
MaxReq == 2
\* Rendezvous datagrams that arrive on the UDP socket.
MaxDgram == 2
\* Data frames a steady producer keeps queued on one connection.
MaxQueued == 3

\* ------------------------------------------------------- program constants
k_max_iteration_count == 32
\* Capacity of m_dataframe_write_buffer after the header, in abstract units.
MAX_DATA_FRAME_MESSAGE_SIZE == 1

\* ------------------------------------------------------------- value sets
ConnIds == 0 .. (MaxConn - 1)
\* Identifiers a rendezvous datagram can carry: MaxConn is never registered.
DgramIds == 0 .. MaxConn
Endpoints == {"X", "Y"}
\* Default-constructed udp::endpoint.
NoEndpoint == "none"
\* Sizes of telemetry messages: one that fits the buffer, one that does not.
FrameSizes == {MAX_DATA_FRAME_MESSAGE_SIZE, MAX_DATA_FRAME_MESSAGE_SIZE + 1}

VARIABLES
    phase,          \* "constructed" | "running" | "shutdown" | "destroyed"
    pc,             \* position of poll(): "idle" | "dispatch" | "loop"
    iteration_count,
    keep_polling,
    next_connection_id,
    connections,    \* keys of the connection map
    clients,        \* id -> ClientConnection object, every object ever created
    io,             \* id -> outstanding TCP operations of that connection
    accept_ops,     \* ids whose async_accept is outstanding
    udp_send_ops,   \* outstanding sends on the shared UDP socket, oldest first
    udp_recv_waiting, \* outstanding async_receive_from not yet performed
    udp_recv_done,  \* datagrams consumed by performed receives, handler not yet run
    m_udp_connection_id_read_buffer,
    udp_connecting_remote_endpoint,
    hist,           \* id -> history of that connection (observations only)
    rdv,            \* the datagram the last rendezvous handler answered and
                    \* what the handler did (observation only)
    dgrams,         \* rendezvous datagrams received so far
    sends,          \* send_* calls so far
    requests,       \* request headers read so far
    dtor_assert     \* "none" | "ok" | "failed": outcome of assert(connections.empty())

vars == << phase, pc, iteration_count, keep_polling, next_connection_id,
           connections, clients, io, accept_ops, udp_send_ops, udp_recv_waiting,
           udp_recv_done, m_udp_connection_id_read_buffer,
           udp_connecting_remote_endpoint, hist, rdv, dgrams, sends, requests,
           dtor_assert >>

\* ---------------------------------------------------------------- helpers
SetMin(S) == CHOOSE x \in S : \A y \in S : x <= y

\* A ClientConnection right after its constructor.
NewClientConnection == [
    m_connection_stopped    |-> FALSE,
    m_has_pending_tcp_write |-> FALSE,
    m_has_pending_udp_write |-> FALSE,
    m_pending_responses     |-> <<>>,
    m_pending_dataframes    |-> <<>>,
    m_udp_remote_endpoint   |-> NoEndpoint,
    tcp_open                |-> FALSE ]

\* No TCP operation outstanding.  rd: "none" | "header" | "body"; rd_dead: the
\* read was started on a socket that was not open, it can only fail.
\* wr: outstanding async_write operations, oldest first, each with the item
\* packed into the write buffer and whether it was started on a closed socket.
NewIo == [ rd |-> "none", rd_dead |-> FALSE, wr |-> <<>> ]

NewHist == [
    resp_n     |-> 0,      \* items pushed on m_pending_responses so far
    frame_n    |-> 0,      \* items pushed on m_pending_dataframes so far
    first_sent |-> <<>>,   \* <<item>> of the first TCP write that completed without error
    tcp_done   |-> <<>>,   \* items of the TCP writes whose handler popped the queue
    udp_done   |-> <<>>,   \* the same for the UDP writes
    reads_ok   |-> 0,      \* well-formed request bodies read
    handled    |-> <<>>,   \* connection ids the request handler was called with
    restopped  |-> FALSE,  \* stop() was called on the stopped connection
    failed     |-> FALSE,  \* some write of this connection completed with an error
    ub         |-> FALSE ] \* a handler ran on the destroyed object or popped an empty deque

\* Nothing observed yet by the rendezvous handler.
NoRdv == [ seen |-> FALSE, id |-> 0, from |-> NoEndpoint, registered |-> FALSE,
           value |-> FALSE, to |-> NoEndpoint, peer |-> NoEndpoint,
           others |-> FALSE, changed |-> FALSE ]

\* The part of the state the connection and manager methods read and write,
\* passed through the methods so that a method can call another.
World == [ clients |-> clients, io |-> io, hist |-> hist,
           connections |-> connections, accept_ops |-> accept_ops,
           next_connection_id |-> next_connection_id,
           udp_send_ops |-> udp_send_ops,
           udp_recv_waiting |-> udp_recv_waiting ]

Commit(w) ==
    /\ clients' = w.clients
    /\ io' = w.io
    /\ hist' = w.hist
    /\ connections' = w.connections
    /\ accept_ops' = w.accept_ops
    /\ next_connection_id' = w.next_connection_id
    /\ udp_send_ops' = w.udp_send_ops
    /\ udp_recv_waiting' = w.udp_recv_waiting

\* ------------------------------------------------------- ClientConnection
\* PackedMessage::pack(buffer, size): false when the message does not fit.
PackDataFrame(frame) == frame.size <= MAX_DATA_FRAME_MESSAGE_SIZE

\* A stop() that also discards the response at the front of the queue.
stop_discarding_front(w, c) ==
    [w EXCEPT !.clients[c].tcp_open = FALSE,
              !.clients[c].m_connection_stopped = TRUE,
              !.clients[c].m_has_pending_tcp_write = FALSE,
              !.clients[c].m_has_pending_udp_write = FALSE,
              !.clients[c].m_pending_responses = IF @ = <<>> THEN @ ELSE Tail(@),
              !.hist[c].restopped = @ \/ w.clients[c].m_connection_stopped]

\* stop(): m_tcp_socket.shutdown() is taken to succeed on an open socket.
stop(w, c) ==
    [w EXCEPT !.clients[c].tcp_open = FALSE,
              !.clients[c].m_connection_stopped = TRUE,
              !.clients[c].m_has_pending_tcp_write = FALSE,
              !.clients[c].m_has_pending_udp_write = FALSE,
              !.hist[c].restopped = @ \/ w.clients[c].m_connection_stopped]

bind_udp_remote_endpoint(w, c, endpoint) ==
    [w EXCEPT !.clients[c].m_udp_remote_endpoint = endpoint]

has_pending_udp_write(w, c) == w.clients[c].m_has_pending_udp_write

has_queued_controller_data_frames(w, c) ==
    Len(w.clients[c].m_pending_dataframes) > 0

\* The item is stamped with its position in the enqueue order of its queue.
add_tcp_response_to_write_queue(w, c, response) ==
    LET item == [response EXCEPT !.n = w.hist[c].resp_n + 1]
    IN  [w EXCEPT !.clients[c].m_pending_responses = Append(@, item),
                  !.hist[c].resp_n = @ + 1]

start_tcp_write_queued_response(w, c) ==
    LET o == w.clients[c]
    IN  IF /\ ~o.m_connection_stopped
           /\ ~o.m_has_pending_tcp_write
           /\ Len(o.m_pending_responses) > 0
        THEN [w EXCEPT !.clients[c].m_has_pending_tcp_write = TRUE,
                       !.io[c].wr = Append(@, [item |-> Head(o.m_pending_responses),
                                               dead |-> ~o.tcp_open])]
        ELSE w

add_controller_data_frame_to_write_queue(w, c, data_frame) ==
    LET item == [data_frame EXCEPT !.n = w.hist[c].frame_n + 1]
    IN  [w EXCEPT !.clients[c].m_pending_dataframes = Append(@, item),
                  !.hist[c].frame_n = @ + 1]

\* Whether start_udp_write_queued_controller_data_frame() begins a new send.
UdpWriteStarts(w, c) ==
    LET o == w.clients[c]
    IN  /\ ~o.m_connection_stopped
        /\ ~o.m_has_pending_udp_write
        /\ Len(o.m_pending_dataframes) > 0
        /\ PackDataFrame(Head(o.m_pending_dataframes))

\* Its return value, write_in_progress.
UdpWriteInProgress(w, c) ==
    LET o == w.clients[c]
    IN  ~o.m_connection_stopped /\ (o.m_has_pending_udp_write \/ UdpWriteStarts(w, c))

start_udp_write_queued_controller_data_frame(w, c) ==
    IF UdpWriteStarts(w, c)
    THEN [w EXCEPT !.clients[c].m_has_pending_udp_write = TRUE,
                   !.udp_send_ops =
                       Append(@, [kind |-> "frame", conn |-> c,
                                  item |-> Head(w.clients[c].m_pending_dataframes),
                                  to |-> w.clients[c].m_udp_remote_endpoint,
                                  value |-> FALSE])]
    ELSE w

send_connection_info(w, c) ==
    start_tcp_write_queued_response(
        add_tcp_response_to_write_queue(
            w, c, [kind |-> "info", id |-> c, request_id |-> -1, n |-> 0]), c)

start_tcp_read_request_header(w, c) ==
    [w EXCEPT !.io[c].rd = "header", !.io[c].rd_dead = ~w.clients[c].tcp_open]

start_read_body(w, c) ==
    [w EXCEPT !.io[c].rd = "body", !.io[c].rd_dead = ~w.clients[c].tcp_open]

start(w, c) ==
    start_tcp_read_request_header(
        send_connection_info(
            [w EXCEPT !.clients[c].m_connection_stopped = FALSE], c), c)

\* The external request handler: its response answers request number k of
\* the connection id it was called with.
RequestHandler(id, k) == [kind |-> "resp", id |-> id, request_id |-> k, n |-> 0]

\* A handle_request() that calls the request handler and drops its response.
handle_request_dropping_response(w, c, unpacked) ==
    IF unpacked
    THEN [w EXCEPT !.hist[c].reads_ok = @ + 1,
                   !.hist[c].handled = Append(@, c)]
    ELSE w

\* A handle_request() that answers whatever unpack() returned.
handle_request_ignoring_unpack(w, c, unpacked) ==
    LET k  == w.hist[c].reads_ok + 1
        w1 == [w EXCEPT !.hist[c].reads_ok = IF unpacked THEN k ELSE @,
                        !.hist[c].handled = Append(@, c)]
    IN  start_tcp_write_queued_response(
            add_tcp_response_to_write_queue(w1, c, RequestHandler(c, k)), c)

\* unpacked: whether m_packed_request.unpack() accepted the body.
handle_request(w, c, unpacked) ==
    IF unpacked
    THEN LET k  == w.hist[c].reads_ok + 1
             w1 == [w EXCEPT !.hist[c].reads_ok = k,
                             !.hist[c].handled = Append(@, c)]
         IN  start_tcp_write_queued_response(
                 add_tcp_response_to_write_queue(w1, c, RequestHandler(c, k)), c)
    ELSE w

\* What pop_front() leaves in the deque.  On an empty deque it is undefined:
\* the deque stays empty or is left holding a junk element.
PopFront(q, junk) ==
    IF Len(q) > 0 THEN Tail(q) ELSE IF junk = <<>> THEN <<>> ELSE <<junk>>

JunkResponse == [kind |-> "junk", id |-> -1, request_id |-> -1, n |-> 0]
JunkFrame == [size |-> MAX_DATA_FRAME_MESSAGE_SIZE, n |-> 0]

\* ok: the error_code reports success.  op: the completed operation.
\* junk: <<>> or the junk element an undefined pop_front() leaves behind.
handle_write_response_complete(w, c, ok, op, junk) ==
    IF w.clients[c].m_connection_stopped THEN w
    ELSE IF ok
    THEN LET q  == w.clients[c].m_pending_responses
             w1 == [w EXCEPT !.clients[c].m_has_pending_tcp_write = FALSE,
                             !.clients[c].m_pending_responses = PopFront(q, junk),
                             !.hist[c].tcp_done = Append(@, op.item),
                             !.hist[c].ub = @ \/ (Len(q) = 0)]
         IN  start_tcp_write_queued_response(w1, c)
    ELSE stop(w, c)

handle_udp_write_controller_data_frame_complete(w, c, ok, op, junk) ==
    IF w.clients[c].m_connection_stopped THEN w
    ELSE IF ok
    THEN LET q == w.clients[c].m_pending_dataframes
         IN  [w EXCEPT !.clients[c].m_has_pending_udp_write = FALSE,
                       !.clients[c].m_pending_dataframes = PopFront(q, junk),
                       !.hist[c].udp_done = Append(@, op.item),
                       !.hist[c].ub = @ \/ (Len(q) = 0)]
    ELSE stop(w, c)

\* The object is destroyed when the last shared pointer to it is gone: the map
\* entry, the one bound into the accept handler, those bound into the read
\* handlers.  The write handlers are bound to the raw this pointer.
Destroyed(w, c) ==
    /\ c \notin w.connections
    /\ c \notin w.accept_ops
    /\ w.io[c].rd = "none"

\* ------------------------------------------------ ServerNetworkManagerImpl
start_udp_receive_connection_id(w) ==
    [w EXCEPT !.udp_recv_waiting = @ + 1]

start_tcp_accept(w) ==
    LET id == w.next_connection_id
    IN  start_udp_receive_connection_id(
            [w EXCEPT !.clients = @ @@ (id :> NewClientConnection),
                      !.io = @ @@ (id :> NewIo),
                      !.hist = @ @@ (id :> NewHist),
                      !.connections = @ \cup {id},
                      !.accept_ops = @ \cup {id},
                      !.next_connection_id = id + 1])

\* The scans walk the map in key order.
RECURSIVE StopEach(_, _)
StopEach(w, S) ==
    IF S = {} THEN w
    ELSE LET c == SetMin(S) IN StopEach(stop(w, c), S \ {c})

close_all_connections(w) ==
    [StopEach(w, w.connections) EXCEPT !.connections = {}]

Notification(response) == [response EXCEPT !.request_id = -1]

send_notification(w, connection_id, response) ==
    IF connection_id \in w.connections
    THEN start_tcp_write_queued_response(
             add_tcp_response_to_write_queue(
                 w, connection_id, Notification(response)), connection_id)
    ELSE w

RECURSIVE NotifyEach(_, _, _)
NotifyEach(w, S, response) ==
    IF S = {} THEN w
    ELSE LET c == SetMin(S)
         IN  NotifyEach(
                 start_tcp_write_queued_response(
                     add_tcp_response_to_write_queue(w, c, response), c),
                 S \ {c}, response)

send_notification_to_all_clients(w, response) ==
    NotifyEach(w, w.connections, Notification(response))

RECURSIVE StartFirstUdpWrite(_, _)
StartFirstUdpWrite(w, S) ==
    IF S = {} THEN w
    ELSE LET c == SetMin(S)
         IN  IF UdpWriteInProgress(w, c)
             THEN start_udp_write_queued_controller_data_frame(w, c)
             ELSE StartFirstUdpWrite(
                      start_udp_write_queued_controller_data_frame(w, c), S \ {c})

start_udp_queued_data_frame_write(w) ==
    StartFirstUdpWrite(w, w.connections)

send_controller_data_frame(w, connection_id, data_frame) ==
    IF connection_id \in w.connections
    THEN start_udp_queued_data_frame_write(
             add_controller_data_frame_to_write_queue(w, connection_id, data_frame))
    ELSE w

\* found: has_queued_write_ready_to_start so far.  A pending write ends the
\* scan with udp_socket_available false.
RECURSIVE ReadyScan(_, _, _)
ReadyScan(w, S, found) ==
    IF S = {} THEN found
    ELSE LET c == SetMin(S)
         IN  IF has_pending_udp_write(w, c) THEN FALSE
             ELSE ReadyScan(w, S \ {c},
                            found \/ has_queued_controller_data_frames(w, c))

has_queued_controller_data_frames_ready_to_start(w) ==
    ReadyScan(w, w.connections, FALSE)

handle_tcp_accept(w, c, ok) ==
    LET w1 == [w EXCEPT !.accept_ops = @ \ {c}]
    IN  IF ok
        THEN start_tcp_accept(start([w1 EXCEPT !.clients[c].tcp_open = TRUE], c))
        ELSE w1

\* The reply is taken to leave with the value and the destination it was
\* started with.
start_udp_send_connection_result(w, success, endpoint) ==
    [w EXCEPT !.udp_send_ops =
        Append(@, [kind |-> "result", conn |-> -1, item |-> [size |-> 0, n |-> 0],
                   to |-> endpoint, value |-> success])]

\* id, endpoint: what m_udp_connection_id_read_buffer and
\* udp_connecting_remote_endpoint hold when the handler runs.
handle_udp_read_connection_id(w, id, endpoint) ==
    IF id \in w.connections
    THEN start_udp_send_connection_result(
             bind_udp_remote_endpoint(w, id, endpoint), TRUE, endpoint)
    ELSE start_udp_send_connection_result(w, FALSE, endpoint)

handle_udp_write_connection_result(w) ==
    start_udp_receive_connection_id(w)

\* ------------------------------------------------------------ the machine
EmptyMap == [x \in {} |-> x]

Init ==
    /\ phase = "constructed"
    /\ pc = "idle"
    /\ iteration_count = 0
    /\ keep_polling = TRUE
    /\ next_connection_id = 0
    /\ connections = {}
    /\ clients = EmptyMap
    /\ io = EmptyMap
    /\ hist = EmptyMap
    /\ accept_ops = {}
    /\ udp_send_ops = <<>>
    /\ udp_recv_waiting = 0
    /\ udp_recv_done = <<>>
    /\ m_udp_connection_id_read_buffer = 0
    /\ udp_connecting_remote_endpoint = NoEndpoint
    /\ rdv = NoRdv
    /\ dgrams = 0
    /\ sends = 0
    /\ requests = 0
    /\ dtor_assert = "none"

ctl == << phase, pc, iteration_count, keep_polling >>
rdvVars == << udp_recv_done, m_udp_connection_id_read_buffer,
              udp_connecting_remote_endpoint, rdv, dgrams >>
budget == << sends, requests >>

\* Between two update() calls, on a started server.
Idle == pc = "idle" /\ phase = "running"
\* Inside io_service.poll().
Dispatching == pc = "dispatch"

\* ServerNetworkManager::startup()
Startup ==
    /\ phase = "constructed"
    /\ phase' = "running"
    /\ Commit(start_tcp_accept(World))
    /\ UNCHANGED << pc, iteration_count, keep_polling, rdvVars, budget, dtor_assert >>

\* ServerNetworkManager::shutdown()
Shutdown ==
    /\ Idle
    /\ phase' = "shutdown"
    /\ Commit(close_all_connections(World))
    /\ UNCHANGED << pc, iteration_count, keep_polling, rdvVars, budget, dtor_assert >>

\* ~ServerNetworkManager(), which asserts m_instance == NULL, then
\* ~ServerNetworkManagerImpl().
Destroy ==
    /\ pc = "idle"
    /\ phase = "shutdown"
    /\ phase' = "destroyed"
    /\ dtor_assert' = IF connections = {} THEN "ok" ELSE "failed"
    /\ UNCHANGED << pc, iteration_count, keep_polling, rdvVars, budget, next_connection_id,
                    connections, clients, io, accept_ops, udp_send_ops,
                    udp_recv_waiting, hist >>

\* A send_* call by the request handler's owner or a telemetry producer.
Sending ==
    /\ Idle
    /\ sends < MaxSend
    /\ sends' = sends + 1
    /\ UNCHANGED << ctl, rdvVars, requests, dtor_assert >>

SendNotification(id) ==
    /\ Sending
    /\ id \in connections
    /\ Commit(send_notification(
                  World, id, [kind |-> "note", id |-> -1, request_id |-> 0, n |-> 0]))

SendNotificationToAll ==
    /\ Sending
    /\ connections # {}
    /\ Commit(send_notification_to_all_clients(
                  World, [kind |-> "note", id |-> -1, request_id |-> 0, n |-> 0]))

SendControllerDataFrame(id, size) ==
    /\ Sending
    /\ id \in connections
    /\ Commit(send_controller_data_frame(World, id, [size |-> size, n |-> 0]))

\* poll(): entry and the first pass of the loop up to io_service.poll().
PollEnter ==
    /\ pc = "idle"
    /\ phase \in {"running", "shutdown"}
    /\ pc' = "dispatch"
    /\ iteration_count' = 0
    /\ keep_polling' = TRUE
    /\ Commit(start_udp_queued_data_frame_write(World))
    /\ UNCHANGED << phase, rdvVars, budget, dtor_assert >>

\* The loop condition without the cap on iteration_count.
PollLoopsUncapped == has_queued_controller_data_frames_ready_to_start(World)

\* io_service.poll() has returned: the end of one pass of the loop.
PollLoops ==
    /\ has_queued_controller_data_frames_ready_to_start(World)
    /\ iteration_count + 1 < k_max_iteration_count

\* The loop test after a pass: another pass, up to io_service.poll(), or the
\* return of poll().  The locals die with the call: on return they are put
\* back to their initial values.
PollPassEnds ==
    /\ Dispatching
    /\ IF PollLoops
       THEN /\ iteration_count' = iteration_count + 1
            /\ keep_polling' = TRUE
            /\ pc' = pc
            /\ Commit(start_udp_queued_data_frame_write(World))
       ELSE /\ iteration_count' = 0
            /\ keep_polling' = TRUE
            /\ pc' = "idle"
            /\ Commit(World)
    /\ UNCHANGED << phase, rdvVars, budget, dtor_assert >>

\* ---- completion handlers, run by io_service.poll()
\* handle_tcp_accept without error.  The guard caps the connections created.
TcpAccepted(c) ==
    /\ Dispatching
    /\ c \in accept_ops
    /\ next_connection_id < MaxConn
    /\ Commit(handle_tcp_accept(World, c, TRUE))
    /\ UNCHANGED << ctl, rdvVars, budget, dtor_assert >>

TcpAcceptFailed(c) ==
    /\ Dispatching
    /\ c \in accept_ops
    /\ Commit(handle_tcp_accept(World, c, FALSE))
    /\ UNCHANGED << ctl, rdvVars, budget, dtor_assert >>

\* handle_tcp_read_request_header
HeaderRead(c) ==
    /\ Dispatching
    /\ io[c].rd = "header" /\ ~io[c].rd_dead
    /\ requests < MaxReq
    /\ requests' = requests + 1
    /\ Commit(start_read_body(World, c))
    /\ UNCHANGED << ctl, rdvVars, sends, dtor_assert >>

HeaderReadFailed(c) ==
    /\ Dispatching
    /\ io[c].rd = "header"
    /\ Commit([World EXCEPT !.io[c].rd = "none"])
    /\ UNCHANGED << ctl, rdvVars, budget, dtor_assert >>

\* handle_read_body
BodyRead(c, unpacked) ==
    /\ Dispatching
    /\ io[c].rd = "body" /\ ~io[c].rd_dead
    /\ Commit(start_tcp_read_request_header(handle_request(World, c, unpacked), c))
    /\ UNCHANGED << ctl, rdvVars, budget, dtor_assert >>

BodyReadFailed(c) ==
    /\ Dispatching
    /\ io[c].rd = "body"
    /\ Commit([World EXCEPT !.io[c].rd = "none"])
    /\ UNCHANGED << ctl, rdvVars, budget, dtor_assert >>

\* A handler bound to the raw this pointer that runs after the object was
\* destroyed reads freed memory: it acts on the old field values or not at all.
OnObject(w, c, handled, acts) ==
    IF Destroyed(w, c)
    THEN [(IF acts THEN handled ELSE w) EXCEPT !.hist[c].ub = TRUE]
    ELSE handled

\* The outcomes to choose from where the behaviour is undefined.
ActChoices(c) == IF Destroyed(World, c) THEN BOOLEAN ELSE {TRUE}
JunkChoices(q, junk) == IF q = <<>> THEN {<<>>, junk} ELSE {<<>>}

\* The oldest outstanding async_write of c completes.
TcpWriteDone(c, ok) ==
    /\ Dispatching
    /\ io[c].wr # <<>>
    /\ LET op == Head(io[c].wr)
           w0 == [World EXCEPT !.io[c].wr = Tail(@),
                               !.hist[c].first_sent =
                                   IF ok /\ @ = <<>> THEN <<op.item>> ELSE @,
                               !.hist[c].failed = @ \/ ~ok]
       IN  /\ ok => ~op.dead
           /\ \E acts \in ActChoices(c),
                 junk \in JunkChoices(clients[c].m_pending_responses, JunkResponse) :
                 Commit(OnObject(w0, c,
                     handle_write_response_complete(w0, c, ok, op, junk), acts))
    /\ UNCHANGED << ctl, rdvVars, budget, dtor_assert >>

\* The oldest outstanding send on the UDP socket completes: a data frame.
UdpFrameWriteDone(ok) ==
    /\ Dispatching
    /\ udp_send_ops # <<>>
    /\ Head(udp_send_ops).kind = "frame"
    /\ LET op == Head(udp_send_ops)
           c  == op.conn
           w0 == [World EXCEPT !.udp_send_ops = Tail(@),
                               !.hist[c].failed = @ \/ ~ok]
       IN  \E acts \in ActChoices(c),
              junk \in JunkChoices(clients[c].m_pending_dataframes, JunkFrame) :
              Commit(OnObject(w0, c,
                  handle_udp_write_controller_data_frame_complete(w0, c, ok, op, junk),
                  acts))
    /\ UNCHANGED << ctl, rdvVars, budget, dtor_assert >>

\* ... a rendezvous reply: handle_udp_write_connection_result, either outcome.
UdpResultWriteDone ==
    /\ Dispatching
    /\ udp_send_ops # <<>>
    /\ Head(udp_send_ops).kind = "result"
    /\ Commit(handle_udp_write_connection_result(
                  [World EXCEPT !.udp_send_ops = Tail(@)]))
    /\ UNCHANGED << ctl, rdvVars, budget, dtor_assert >>

\* An outstanding async_receive_from is performed: the datagram lands in the
\* one read buffer and the one endpoint all receives were given.
UdpDatagramArrives(id, from) ==
    /\ Dispatching
    /\ udp_recv_waiting > 0
    /\ dgrams < MaxDgram
    /\ dgrams' = dgrams + 1
    /\ udp_recv_waiting' = udp_recv_waiting - 1
    /\ udp_recv_done' = Append(udp_recv_done, [id |-> id, from |-> from])
    /\ m_udp_connection_id_read_buffer' = id
    /\ udp_connecting_remote_endpoint' = from
    /\ UNCHANGED << ctl, rdv, budget, dtor_assert, next_connection_id, connections, clients,
                    io, accept_ops, udp_send_ops, hist >>

\* handle_udp_read_connection_id with an error: nothing is started.
UdpReceiveFailed ==
    /\ Dispatching
    /\ udp_recv_waiting > 0
    /\ udp_recv_waiting' = udp_recv_waiting - 1
    /\ UNCHANGED << ctl, rdvVars, budget, dtor_assert, next_connection_id, connections,
                    clients, io, accept_ops, udp_send_ops, hist >>

\* handle_udp_read_connection_id without error, for the oldest performed
\* receive.  rdv records the datagram that receive consumed and what the
\* handler did.
UdpConnectionIdRead ==
    /\ Dispatching
    /\ udp_recv_done # <<>>
    /\ LET d  == Head(udp_recv_done)
           w1 == handle_udp_read_connection_id(
                     World, m_udp_connection_id_read_buffer,
                     udp_connecting_remote_endpoint)
           r  == w1.udp_send_ops[Len(w1.udp_send_ops)]
       IN  /\ Commit(w1)
           /\ rdv' = [ seen |-> TRUE, id |-> d.id, from |-> d.from,
                       registered |-> d.id \in connections,
                       value |-> r.value, to |-> r.to,
                       peer |-> IF d.id \in DOMAIN clients
                                THEN w1.clients[d.id].m_udp_remote_endpoint
                                ELSE NoEndpoint,
                       others |-> \A c \in DOMAIN clients \ {d.id} :
                                     w1.clients[c] = clients[c],
                       changed |-> w1.clients # clients
                                   \/ w1.connections # connections ]
    /\ udp_recv_done' = Tail(udp_recv_done)
    /\ UNCHANGED << ctl, m_udp_connection_id_read_buffer,
                    udp_connecting_remote_endpoint, dgrams, budget, dtor_assert >>

\* ---- groups of actions
Lifecycle == Startup \/ Shutdown \/ Destroy

Poll == PollEnter \/ PollPassEnds

Accepts ==
    \/ \E c \in accept_ops : TcpAccepted(c)
    \/ \E c \in accept_ops : TcpAcceptFailed(c)

Notifications ==
    \/ \E id \in ConnIds : SendNotification(id)
    \/ SendNotificationToAll

TcpWrites ==
    \E c \in DOMAIN clients, ok \in BOOLEAN : TcpWriteDone(c, ok)

Reads ==
    \/ \E c \in DOMAIN clients : HeaderRead(c)
    \/ \E c \in DOMAIN clients : HeaderReadFailed(c)
    \/ \E c \in DOMAIN clients, unpacked \in BOOLEAN : BodyRead(c, unpacked)
    \/ \E c \in DOMAIN clients : BodyReadFailed(c)

Telemetry ==
    \/ \E id \in ConnIds, size \in FrameSizes : SendControllerDataFrame(id, size)
    \/ \E ok \in BOOLEAN : UdpFrameWriteDone(ok)

Rendezvous ==
    \/ \E id \in DgramIds, from \in Endpoints : UdpDatagramArrives(id, from)
    \/ UdpReceiveFailed
    \/ UdpConnectionIdRead
    \/ UdpResultWriteDone

\* The stream side: the life of the server and of its connections, requests,
\* notifications and responses.  No data frames and no rendezvous datagrams:
\* they touch m_pending_dataframes, m_has_pending_udp_write and
\* m_udp_remote_endpoint, which nothing on this side reads.
NextStream == Lifecycle \/ Poll \/ Accepts \/ Notifications \/ TcpWrites \/ Reads

\* The telemetry side of a running server: data frames on the shared UDP
\* socket, together with the notifications and TCP writes through which a
\* connection is stopped.
NextTelemetry == Startup \/ Poll \/ Accepts \/ Notifications \/ TcpWrites \/ Telemetry

\* The rendezvous: connection-id datagrams and their replies.
NextRendezvous == Lifecycle \/ Poll \/ Accepts \/ Rendezvous

Next == NextStream \/ NextTelemetry \/ NextRendezvous

Spec == Init /\ [][Next]_vars
SpecStream == Init /\ [][NextStream]_vars
SpecTelemetry == Init /\ [][NextTelemetry]_vars
SpecRendezvous == Init /\ [][NextRendezvous]_vars

\* ---- a producer that never runs dry, for the progress of the data frames.
\* The histories are left alone here: the producer may enqueue without end.
\* send_controller_data_frame() by a producer that keeps up to MaxQueued
\* frames on a connection, all of them fitting the write buffer.
SteadySend(id) ==
    /\ Idle
    /\ id \in connections
    /\ Len(clients[id].m_pending_dataframes) < MaxQueued
    /\ Commit([send_controller_data_frame(
                    World, id, [size |-> MAX_DATA_FRAME_MESSAGE_SIZE, n |-> 0])
                EXCEPT !.hist = hist])
    /\ UNCHANGED << ctl, rdvVars, budget, dtor_assert >>

\* The oldest outstanding data-frame send completes without error.
SteadyFrameWriteDone ==
    /\ Dispatching
    /\ udp_send_ops # <<>>
    /\ Head(udp_send_ops).kind = "frame"
    /\ LET op == Head(udp_send_ops)
           w0 == [World EXCEPT !.udp_send_ops = Tail(@)]
       IN  Commit([handle_udp_write_controller_data_frame_complete(
                       w0, op.conn, TRUE, op, <<>>)
                   EXCEPT !.hist = hist])
    /\ UNCHANGED << ctl, rdvVars, budget, dtor_assert >>

SteadyTelemetry ==
    \/ \E id \in ConnIds : SteadySend(id)
    \/ SteadyFrameWriteDone

NextSteady ==
    \/ Startup
    \/ Poll
    \/ \E c \in accept_ops : TcpAccepted(c)
    \/ SteadyTelemetry

\* update() is called again and again, every pass of poll() ends, and every
\* data-frame send that was started completes.
SteadyFairness ==
    /\ WF_vars(PollEnter)
    /\ WF_vars(PollPassEnds)
    /\ SF_vars(SteadyFrameWriteDone)

SpecSteady == Init /\ [][NextSteady]_vars /\ SteadyFairness

\* -------------------------------------------------------------- properties
\* Outstanding data-frame sends of connection c on the UDP socket.
UdpWritesOf(c) ==
    { i \in 1 .. Len(udp_send_ops) :
        udp_send_ops[i].kind = "frame" /\ udp_send_ops[i].conn = c }

UdpFrameWrites == { i \in 1 .. Len(udp_send_ops) : udp_send_ops[i].kind = "frame" }

\* C1: for every connection, at most one write started from the response
\* queue and at most one started from the data-frame queue is outstanding.
C1_OneWritePerQueue ==
    \A c \in DOMAIN clients :
        /\ Len(io[c].wr) <= 1
        /\ Cardinality(UdpWritesOf(c)) <= 1

\* The i-th completed write carried the i-th item enqueued.
InEnqueueOrder(done) == \A i \in 1 .. Len(done) : done[i].n = i

\* C2: on each channel of each connection the items of the writes that
\* completed and popped the queue are, in order, the first items enqueued.
C2_CompletedWritesArePrefix ==
    \A c \in DOMAIN clients :
        /\ InEnqueueOrder(hist[c].tcp_done)
        /\ InEnqueueOrder(hist[c].udp_done)

\* C3: at most one data-frame send is outstanding on the shared UDP socket.
C3_OneTelemetryWrite == Cardinality(UdpFrameWrites) <= 1

\* C4: the handler run for a datagram whose identifier is registered replies
\* true to that datagram's sender and binds that sender to the connection
\* with that identifier, and to no other.
C4_RegisteredIdBinds ==
    (rdv.seen /\ rdv.registered) =>
        /\ rdv.value = TRUE
        /\ rdv.to = rdv.from
        /\ rdv.peer = rdv.from
        /\ rdv.others

\* C5: the handler run for a datagram whose identifier is not registered
\* replies false and changes no connection and not the map.
C5_UnknownIdChangesNothing ==
    (rdv.seen /\ ~rdv.registered) =>
        /\ rdv.value = FALSE
        /\ ~rdv.changed

\* C6: a pass of the loop of poll() runs only while fewer than
\* k_max_iteration_count passes have been counted, so poll() makes at most
\* that many passes; and its return leaves every queue and every outstanding
\* operation as the last pass left them.
C6_PollIsBounded ==
    /\ [](Dispatching => iteration_count < k_max_iteration_count)
    /\ [][(Dispatching /\ pc' = "idle") =>
            /\ clients' = clients
            /\ udp_send_ops' = udp_send_ops
            /\ io' = io]_vars

\* The last pass the cap allows is running and a data frame is still ready.
C6_Witness ==
    /\ Dispatching
    /\ iteration_count = k_max_iteration_count - 1
    /\ has_queued_controller_data_frames_ready_to_start(World)

\* C7: the first item a connection transmits on its TCP socket is its own
\* connection-info notification, with request id -1.
C7_FirstSentIsConnectionInfo ==
    \A c \in DOMAIN clients :
        hist[c].first_sent # <<>> =>
            /\ hist[c].first_sent[1].kind = "info"
            /\ hist[c].first_sent[1].id = c
            /\ hist[c].first_sent[1].request_id = -1

\* C8: each well-formed request read on a connection calls the request
\* handler once, with that connection's id, and enqueues the handler's
\* response once; while the connection object exists, is not stopped and no
\* write of it has failed, its writes complete in enqueue order, and when none
\* is outstanding every item enqueued has been written once.
C8_OneResponsePerRequest ==
    /\ [][\A c \in DOMAIN clients :
            hist'[c].reads_ok # hist[c].reads_ok =>
                /\ hist'[c].reads_ok = hist[c].reads_ok + 1
                /\ hist'[c].handled = Append(hist[c].handled, c)
                /\ clients'[c].m_pending_responses =
                       Append(clients[c].m_pending_responses,
                              [RequestHandler(c, hist'[c].reads_ok)
                                   EXCEPT !.n = hist'[c].resp_n])
                /\ hist'[c].resp_n = hist[c].resp_n + 1]_vars
    /\ [](\A c \in DOMAIN clients :
            (/\ ~Destroyed(World, c)
             /\ ~clients[c].m_connection_stopped
             /\ ~hist[c].failed) =>
                /\ InEnqueueOrder(hist[c].tcp_done)
                /\ io[c].wr = <<>> =>
                       /\ clients[c].m_pending_responses = <<>>
                       /\ Len(hist[c].tcp_done) = hist[c].resp_n)

\* A response to a request has been written and nothing is left to write.
C8_Witness ==
    \E c \in DOMAIN clients :
        /\ ~Destroyed(World, c)
        /\ ~clients[c].m_connection_stopped
        /\ ~hist[c].failed
        /\ io[c].wr = <<>>
        /\ \E i \in 1 .. Len(hist[c].tcp_done) : hist[c].tcp_done[i].kind = "resp"

C10_MapEmptyAtDestruction == phase = "destroyed" => dtor_assert = "ok"

\* C11: a step in which a read or a write of connection c completes with an
\* error leaves c stopped with its socket closed, and every other connection
\* as it was.
C11_FailureStopsConnection ==
    [][\A c \in DOMAIN clients :
          (HeaderReadFailed(c) \/ BodyReadFailed(c) \/ TcpWriteDone(c, FALSE)) =>
              /\ clients'[c].m_connection_stopped
              /\ ~clients'[c].tcp_open
              /\ \A d \in DOMAIN clients \ {c} : clients'[d] = clients[d]]_vars

\* C12: a step that finds connection c stopped and leaves it stopped changes
\* neither of its queues, leaves both pending-write flags false and starts no
\* write for it.
C12_StoppedIgnoresQueueOps ==
    [][\A c \in DOMAIN clients :
          (clients[c].m_connection_stopped /\ clients'[c].m_connection_stopped) =>
              /\ clients'[c].m_pending_responses = clients[c].m_pending_responses
              /\ clients'[c].m_pending_dataframes = clients[c].m_pending_dataframes
              /\ ~clients'[c].m_has_pending_tcp_write
              /\ ~clients'[c].m_has_pending_udp_write
              /\ Len(io'[c].wr) <= Len(io[c].wr)
              /\ Cardinality(UdpWritesOf(c)') <= Cardinality(UdpWritesOf(c))]_vars

\* C13: every identifier in the map belongs to a connection whose accept has
\* completed and that is not stopped.
C13_RegisteredAreAcceptedAndRunning ==
    \A c \in connections :
        /\ c \notin accept_ops
        /\ ~clients[c].m_connection_stopped

\* C14: once the datagram peer address of a connection is bound, no step
\* changes it.
C14_PeerAddressBoundOnce ==
    [][\A c \in DOMAIN clients :
          clients[c].m_udp_remote_endpoint # NoEndpoint =>
              clients'[c].m_udp_remote_endpoint = clients[c].m_udp_remote_endpoint]_vars

\* A data frame waits on the registered, running connection c.
FrameWaits(c) ==
    /\ c \in connections
    /\ ~clients[c].m_connection_stopped
    /\ clients[c].m_pending_dataframes # <<>>

\* C15: a data frame that waits on a registered, running connection leads to
\* a datagram write of that connection being outstanding.
C15_TelemetryNotStarved ==
    \A c \in ConnIds :
        FrameWaits(c) ~> (c \in DOMAIN clients /\ clients[c].m_has_pending_udp_write)

\* async_receive_from operations started whose handler has not run yet.
OutstandingReceives == udp_recv_waiting + Len(udp_recv_done)

\* A rendezvous reply has been started and its handler has not run yet.
ReplyInProgress ==
    \E i \in 1 .. Len(udp_send_ops) : udp_send_ops[i].kind = "result"

\* C16: on a started server at most one datagram receive is outstanding, and
\* exactly one whenever no rendezvous reply is in progress.
C16_OneReceiveOutstanding ==
    phase = "running" =>
        /\ OutstandingReceives <= 1
        /\ ~ReplyInProgress => OutstandingReceives = 1

\* C17: on a started server, a step in which an accept completes with an
\* error leaves an accept outstanding, and a step in which a rendezvous receive completes with an
\* error or a rendezvous reply completes leaves as many receives outstanding
\* as before or more: the completed operation has been started again.
C17_TransientFailuresRearm ==
    /\ [][(phase = "running" /\ \E c \in accept_ops : TcpAcceptFailed(c)) =>
              accept_ops' # {}]_vars
    /\ [][(phase = "running" /\ UdpReceiveFailed) =>
              OutstandingReceives' >= OutstandingReceives]_vars
    /\ [][(phase = "running" /\ UdpResultWriteDone) =>
              OutstandingReceives' >= 1]_vars

\* C18: every data-frame send outstanding on the UDP socket was started for a
\* connection whose datagram peer address was bound.
C18_NoWriteBeforeBinding ==
    \A i \in UdpFrameWrites : udp_send_ops[i].to # NoEndpoint

\* C19: in every reachable state, for a running connection with no datagram
\* write pending whose front data frame does not fit the write buffer,
\* start_udp_write_queued_controller_data_frame() removes that frame from the
\* queue and leaves the connection running.
C19_OversizeFrameDropped ==
    \A c \in DOMAIN clients :
        LET o  == clients[c]
            w1 == start_udp_write_queued_controller_data_frame(World, c)
        IN  (/\ ~o.m_connection_stopped
             /\ ~o.m_has_pending_udp_write
             /\ o.m_pending_dataframes # <<>>
             /\ ~PackDataFrame(Head(o.m_pending_dataframes))) =>
                /\ w1.clients[c].m_pending_dataframes = Tail(o.m_pending_dataframes)
                /\ ~w1.clients[c].m_connection_stopped

\* The handler of a stream operation of connection c runs.
StreamCompletion(c) ==
    \/ HeaderRead(c)
    \/ HeaderReadFailed(c)
    \/ \E unpacked \in BOOLEAN : BodyRead(c, unpacked)
    \/ BodyReadFailed(c)
    \/ \E ok \in BOOLEAN : TcpWriteDone(c, ok)

\* C20: on a running server, the handler of an operation of a stopped
\* connection changes nothing of the connection, does not call the request
\* handler and starts neither a read nor a write.
C20_StoppedHandlersAreNoOps ==
    [][\A c \in DOMAIN clients :
          (/\ phase = "running"
           /\ clients[c].m_connection_stopped
           /\ StreamCompletion(c)) =>
              /\ clients'[c] = clients[c]
              /\ hist'[c].handled = hist[c].handled
              /\ io'[c].rd = "none"
              /\ Len(io'[c].wr) <= Len(io[c].wr)]_vars

\* C21: a step in which a body that unpack() rejects has been read on
\* connection c calls no request handler, enqueues nothing, leaves every
\* connection object (stopped flag, queues, pending-write flags) and every
\* outstanding write as they were, and leaves c with a header read outstanding.
C21_MalformedBodyIsDropped ==
    [][\A c \in DOMAIN clients :
          BodyRead(c, FALSE) =>
              /\ clients' = clients
              /\ hist' = hist
              /\ io'[c].wr = io[c].wr
              /\ io'[c].rd = "header"
              /\ \A d \in DOMAIN clients \ {c} : io'[d] = io[d]
              /\ udp_send_ops' = udp_send_ops]_vars

\* The one request read so far, on connection c, had a body that unpack()
\* rejected, and c waits for the next header: the other connections never
\* started a read, c answered no request and its read did not fail.
C21_Witness ==
    \E c \in DOMAIN clients :
        /\ requests > 0
        /\ io[c].rd = "header"
        /\ hist[c].reads_ok = 0
        /\ ~clients[c].m_connection_stopped
        /\ \A d \in DOMAIN clients \ {c} : hist[d].resp_n = 0

\* The oldest outstanding data-frame send of connection c.
OldestUdpWriteOf(c) == udp_send_ops[SetMin(UdpWritesOf(c))]

\* C22: on each channel of each connection, a set pending-write flag means the
\* queue is not empty and its front item is the item of an outstanding write;
\* and the write that can complete next without error on a running connection
\* carries the front item of its queue, so that the pop of its handler
\* removes the item that was transmitted, from a queue that is not empty.
C22_PendingWriteIsQueueHead ==
    \A c \in DOMAIN clients :
        LET o == clients[c]
        IN  /\ o.m_has_pending_tcp_write =>
                /\ o.m_pending_responses # <<>>
                /\ \E i \in 1 .. Len(io[c].wr) :
                       io[c].wr[i].item = Head(o.m_pending_responses)
            /\ o.m_has_pending_udp_write =>
                /\ o.m_pending_dataframes # <<>>
                /\ \E i \in UdpWritesOf(c) :
                       udp_send_ops[i].item = Head(o.m_pending_dataframes)
            /\ (~o.m_connection_stopped /\ io[c].wr # <<>> /\ ~Head(io[c].wr).dead) =>
                /\ o.m_pending_responses # <<>>
                /\ Head(io[c].wr).item = Head(o.m_pending_responses)
            /\ (~o.m_connection_stopped /\ UdpWritesOf(c) # {}) =>
                /\ o.m_pending_dataframes # <<>>
                /\ OldestUdpWriteOf(c).item = Head(o.m_pending_dataframes)

\* C23: a step that finds connection c stopped leaves it stopped and starts
\* neither a stream read nor a write for it.
C23_StoppedForGood ==
    [][\A c \in DOMAIN clients :
          clients[c].m_connection_stopped =>
              /\ clients'[c].m_connection_stopped
              /\ io'[c].rd \in {io[c].rd, "none"}
              /\ Len(io'[c].wr) <= Len(io[c].wr)
              /\ Cardinality(UdpWritesOf(c)') <= Cardinality(UdpWritesOf(c))]_vars
====
